---- MODULE Spec2Model ----
(***************************************************************************)
(* Order lifecycle state machine (order.py), risk and position engine      *)
(* (risk_engine.py) and the singleton event logger (logger.py).            *)
(*                                                                         *)
(* One workflow holds one Order object at a time (as main.py and the test  *)
(* suites do: order1, order2, ... are built and worked on one after the    *)
(* other); the RiskEngine and the Logger outlive the orders.               *)
(* Timestamps of events and console output other than the reason printed   *)
(* by check are left out: no code path reads them.                         *)
(***************************************************************************)
EXTENDS Integers, Sequences, FiniteSets, TLC

\* ------------------------------------------------------------------ bounds
\* RiskEngine(max_order_size, max_position) as constructed by the caller
ArgMaxOrderSize == 1
ArgMaxPosition == 2
\* number of update_position calls in a run
MaxFills == 2
\* number of events the log may hold before logging callers stop
MaxEvents == 3

Symbols == {"AAPL", "MSFT"}
\* order quantities: up to one above the order size limit
Quantities == 1 .. (ArgMaxOrderSize + 1)
\* side values handed to Order(...): the FIX codes, a word and an unknown code
Sides == {"1", "2", "Sell", "9"}

\* ------------------------------------------------------------- order.py
OrderState == {"NEW", "ACKED", "FILLED", "CANCELED", "REJECTED"}

\* variant of allowed: FILLED may still be canceled
allowed_bad_filled(s) ==
    CASE s = "NEW" -> {"ACKED", "REJECTED"}
      [] s = "ACKED" -> {"FILLED", "CANCELED"}
      [] s = "FILLED" -> {"CANCELED"}
      [] OTHER -> {}

\* variant of allowed: a REJECTED order may be reopened
allowed_reopen(s) ==
    CASE s = "NEW" -> {"ACKED", "REJECTED"}
      [] s = "ACKED" -> {"FILLED", "CANCELED"}
      [] s = "REJECTED" -> {"NEW"}
      [] OTHER -> {}

\* the allowed table of Order.transition
allowed(s) ==
    CASE s = "NEW" -> {"ACKED", "REJECTED"}
      [] s = "ACKED" -> {"FILLED", "CANCELED"}
      [] s = "FILLED" -> {}
      [] s = "CANCELED" -> {}
      [] s = "REJECTED" -> {}

\* no Order object built yet
NoOrder == [symbol |-> "", qty |-> 0, side |-> "", state |-> "NONE",
            use_logger |-> FALSE]

\* -------------------------------------------------------- risk_engine.py
BuySides == {"1", "BUY", "Buy"}
SellSides == {"2", "SELL", "Sell"}

\* self.positions.get(symbol, 0)
PositionsGet(pos, symbol) ==
    IF symbol \in DOMAIN pos THEN pos[symbol] ELSE 0

\* self.positions[symbol] = value
PositionsSet(pos, symbol, value) ==
    [s \in (DOMAIN pos) \cup {symbol} |-> IF s = symbol THEN value ELSE pos[s]]

abs(n) == IF n < 0 THEN -n ELSE n

\* ------------------------------------------------------------- variables
VARIABLES
    order,           \* the Order object the workflow holds
    max_order_size,  \* RiskEngine.max_order_size
    max_position,    \* RiskEngine.max_position
    positions,       \* RiskEngine.positions: dict symbol -> net position
    initialized,     \* Logger._instance exists and is _initialized
    events,          \* Logger.events
    file,            \* content of the file "events.json"
    path,            \* Logger.path ("" while no Logger exists)
    test_file,       \* content of the file "test_events.json"
    fills,           \* history: the orders update_position has applied
    last,            \* the last call made, with its outcome
    pc,              \* position of a scripted flow ("api": calls in any order)
    trace,           \* history: the calls a scripted flow has made, in order
    workers,         \* the orders and positions of concurrently running workflows
    raw,             \* the message last handed to FixParser.parse
    msg              \* what that parse returned (NoMsg when it raised)

logger_vars == <<initialized, events, file, path, test_file>>
parser_vars == <<raw, msg>>
flow_vars == <<pc, trace, workers, parser_vars>>
vars == <<order, max_order_size, max_position, positions, logger_vars,
          fills, last, flow_vars>>

\* ------------------------------------------------------------- logger.py
NoFile == [exists |-> FALSE, events |-> <<>>]
\* the default of Logger(path="events.json") and the path of the logger test
DefaultPath == "events.json"
TestPath == "test_events.json"
Paths == {DefaultPath, TestPath}
FileAt(p) == IF p = DefaultPath THEN file ELSE test_file

\* Logger(p): the events of the singleton after __new__ and __init__; the
\* first construction starts from [] and loads the file when it exists, a
\* later one returns at once
LoggerLoad(p) ==
    IF initialized THEN events
    ELSE IF FileAt(p).exists THEN FileAt(p).events ELSE <<>>

\* Logger(p).path
LoggerPath(p) == IF initialized THEN path ELSE p

\* Logger(): the events of the singleton built with the default path
LoggerEvents == LoggerLoad(DefaultPath)

\* Logger.save: the write replaces the file at self.path, or fails with an
\* IOError that save catches and reports, leaving the file as it was
save(evs) ==
    IF path' = DefaultPath
    THEN /\ file' \in {[exists |-> TRUE, events |-> evs], file}
         /\ test_file' = test_file
    ELSE /\ test_file' \in {[exists |-> TRUE, events |-> evs], test_file}
         /\ file' = file

\* variant of log: the event is put in front of the list
log_prepends(event_type, data) ==
    /\ (pc = "api") => Len(LoggerEvents) < MaxEvents
    /\ initialized' = TRUE
    /\ path' = LoggerPath(DefaultPath)
    /\ events' = <<[event_type |-> event_type, data |-> data]>> \o LoggerEvents
    /\ save(events')

\* Logger().log(event_type, data): append, then save
log(event_type, data) ==
    /\ (pc = "api") => Len(LoggerEvents) < MaxEvents
    /\ initialized' = TRUE
    /\ path' = LoggerPath(DefaultPath)
    /\ events' = Append(LoggerEvents, [event_type |-> event_type, data |-> data])
    /\ save(events')

log_order_created(o) ==
    log("ORDER_CREATED", [symbol |-> o.symbol, qty |-> o.qty, side |-> o.side,
                          state |-> o.state])

\* variant of log_state_change: the event records the states the wrong way round
log_state_change_swapped(o, old_state, new_state) ==
    log("STATE_CHANGE", [symbol |-> o.symbol, qty |-> o.qty, side |-> o.side,
                         old_state |-> new_state, new_state |-> old_state])

log_state_change(o, old_state, new_state) ==
    log("STATE_CHANGE", [symbol |-> o.symbol, qty |-> o.qty, side |-> o.side,
                         old_state |-> old_state, new_state |-> new_state])

\* variant of log_risk_check: one event type for both outcomes
log_risk_check_single_kind(o, passed, reason) ==
    log("RISK_CHECK",
        IF reason # ""
        THEN [symbol |-> o.symbol, qty |-> o.qty, side |-> o.side,
              passed |-> passed, reason |-> reason]
        ELSE [symbol |-> o.symbol, qty |-> o.qty, side |-> o.side,
              passed |-> passed])

\* reason = "" stands for reason=None: the payload then has no reason key
log_risk_check(o, passed, reason) ==
    log(IF passed THEN "RISK_APPROVED" ELSE "RISK_REJECTED",
        IF reason # ""
        THEN [symbol |-> o.symbol, qty |-> o.qty, side |-> o.side,
              passed |-> passed, reason |-> reason]
        ELSE [symbol |-> o.symbol, qty |-> o.qty, side |-> o.side,
              passed |-> passed])

log_position_update(symbol, old_position, new_position, o) ==
    log("POSITION_UPDATE",
        [symbol |-> symbol, old_position |-> old_position,
         new_position |-> new_position, order_qty |-> o.qty,
         order_side |-> o.side])

\* ------------------------------------------------------ outcome of a call
NoError == [text |-> "", a |-> "", b |-> ""]
NoReason == [tag |-> "", symbol |-> "", side |-> "", qty |-> 0, limit |-> 0,
             new_position |-> 0, current |-> 0]
\* op: the operation; arg: its state or symbol argument; raised: the
\* exception that left the call ("" when it returned); error: the text of the
\* exception; ret: what check returned; value: what get_position returned;
\* reason: the RISK REJECT line check printed; follows_approval: the call
\* comes directly after a check of the same order that returned True
NoCall == [op |-> "", arg |-> "", raised |-> "", error |-> NoError,
           ret |-> FALSE, value |-> 0, reason |-> NoReason,
           follows_approval |-> FALSE]

\* ---------------------------------------------------- RiskEngine.check
\* variant of check: the order size test is missing
check_no_size_limit(o, pos, mos, mp) ==
    LET current_position == PositionsGet(pos, o.symbol)
        position_change == IF o.side \in BuySides THEN o.qty ELSE -o.qty
        new_position == current_position + position_change
    IN  IF o.side \notin BuySides \cup SellSides
        THEN [ret |-> FALSE,
              reason |-> [NoReason EXCEPT !.tag = "Invalid side",
                              !.side = o.side, !.symbol = o.symbol]]
        ELSE IF abs(new_position) > mp
        THEN [ret |-> FALSE,
              reason |-> [NoReason EXCEPT !.tag = "exceed max position",
                              !.new_position = new_position, !.limit = mp,
                              !.symbol = o.symbol, !.current = current_position]]
        ELSE [ret |-> TRUE, reason |-> NoReason]

\* variant of check: the limits are exclusive (>= for >)
check_exclusive_limits(o, pos, mos, mp) ==
    LET current_position == PositionsGet(pos, o.symbol)
        position_change == IF o.side \in BuySides THEN o.qty ELSE -o.qty
        new_position == current_position + position_change
    IN  IF o.qty >= mos
        THEN [ret |-> FALSE,
              reason |-> [NoReason EXCEPT !.tag = "exceeds max order size",
                              !.qty = o.qty, !.limit = mos, !.symbol = o.symbol]]
        ELSE IF o.side \notin BuySides \cup SellSides
        THEN [ret |-> FALSE,
              reason |-> [NoReason EXCEPT !.tag = "Invalid side",
                              !.side = o.side, !.symbol = o.symbol]]
        ELSE IF abs(new_position) >= mp
        THEN [ret |-> FALSE,
              reason |-> [NoReason EXCEPT !.tag = "exceed max position",
                              !.new_position = new_position, !.limit = mp,
                              !.symbol = o.symbol, !.current = current_position]]
        ELSE [ret |-> TRUE, reason |-> NoReason]

\* variant of check: the position limit is tested on the position held, not
\* on the position the order would lead to
check_current_position(o, pos, mos, mp) ==
    LET current_position == PositionsGet(pos, o.symbol)
        position_change == IF o.side \in BuySides THEN o.qty ELSE -o.qty
        new_position == current_position + position_change
    IN  IF o.qty > mos
        THEN [ret |-> FALSE,
              reason |-> [NoReason EXCEPT !.tag = "exceeds max order size",
                              !.qty = o.qty, !.limit = mos, !.symbol = o.symbol]]
        ELSE IF o.side \notin BuySides \cup SellSides
        THEN [ret |-> FALSE,
              reason |-> [NoReason EXCEPT !.tag = "Invalid side",
                              !.side = o.side, !.symbol = o.symbol]]
        ELSE IF abs(current_position) > mp
        THEN [ret |-> FALSE,
              reason |-> [NoReason EXCEPT !.tag = "exceed max position",
                              !.new_position = new_position, !.limit = mp,
                              !.symbol = o.symbol, !.current = current_position]]
        ELSE [ret |-> TRUE, reason |-> NoReason]

\* variant of check: the position limit is tested on the long side only
check_long_only(o, pos, mos, mp) ==
    LET current_position == PositionsGet(pos, o.symbol)
        position_change == IF o.side \in BuySides THEN o.qty ELSE -o.qty
        new_position == current_position + position_change
    IN  IF o.qty > mos
        THEN [ret |-> FALSE,
              reason |-> [NoReason EXCEPT !.tag = "exceeds max order size",
                              !.qty = o.qty, !.limit = mos, !.symbol = o.symbol]]
        ELSE IF o.side \notin BuySides \cup SellSides
        THEN [ret |-> FALSE,
              reason |-> [NoReason EXCEPT !.tag = "Invalid side",
                              !.side = o.side, !.symbol = o.symbol]]
        ELSE IF new_position > mp
        THEN [ret |-> FALSE,
              reason |-> [NoReason EXCEPT !.tag = "exceed max position",
                              !.new_position = new_position, !.limit = mp,
                              !.symbol = o.symbol, !.current = current_position]]
        ELSE [ret |-> TRUE, reason |-> NoReason]

\* variant of check: lower-case side words are accepted as well
check_any_case(o, pos, mos, mp) ==
    LET current_position == PositionsGet(pos, o.symbol)
        position_change == IF o.side \in BuySides \cup {"buy"} THEN o.qty ELSE -o.qty
        new_position == current_position + position_change
    IN  IF o.qty > mos
        THEN [ret |-> FALSE,
              reason |-> [NoReason EXCEPT !.tag = "exceeds max order size",
                              !.qty = o.qty, !.limit = mos, !.symbol = o.symbol]]
        ELSE IF o.side \notin BuySides \cup SellSides \cup {"buy", "sell"}
        THEN [ret |-> FALSE,
              reason |-> [NoReason EXCEPT !.tag = "Invalid side",
                              !.side = o.side, !.symbol = o.symbol]]
        ELSE IF abs(new_position) > mp
        THEN [ret |-> FALSE,
              reason |-> [NoReason EXCEPT !.tag = "exceed max position",
                              !.new_position = new_position, !.limit = mp,
                              !.symbol = o.symbol, !.current = current_position]]
        ELSE [ret |-> TRUE, reason |-> NoReason]

\* check: the returned value and the reason printed on a rejection
check(o, pos, mos, mp) ==
    LET current_position == PositionsGet(pos, o.symbol)
        position_change == IF o.side \in BuySides THEN o.qty ELSE -o.qty
        new_position == current_position + position_change
    IN  IF o.qty > mos
        THEN [ret |-> FALSE,
              reason |-> [NoReason EXCEPT !.tag = "exceeds max order size",
                              !.qty = o.qty, !.limit = mos, !.symbol = o.symbol]]
        ELSE IF o.side \notin BuySides \cup SellSides
        THEN [ret |-> FALSE,
              reason |-> [NoReason EXCEPT !.tag = "Invalid side",
                              !.side = o.side, !.symbol = o.symbol]]
        ELSE IF abs(new_position) > mp
        THEN [ret |-> FALSE,
              reason |-> [NoReason EXCEPT !.tag = "exceed max position",
                              !.new_position = new_position, !.limit = mp,
                              !.symbol = o.symbol, !.current = current_position]]
        ELSE [ret |-> TRUE, reason |-> NoReason]

\* ------------------------------------------- RiskEngine.update_position
\* variant of update_position: the change replaces the position
update_position_overwrite(o, pos) ==
    LET position_change == IF o.side \in BuySides THEN o.qty ELSE -o.qty
    IN  IF o.side \notin BuySides \cup SellSides
        THEN [raised |-> "ValueError",
              error |-> [text |-> "Invalid side in update_position",
                         a |-> o.side, b |-> ""],
              positions |-> pos]
        ELSE [raised |-> "", error |-> NoError,
              positions |-> PositionsSet(pos, o.symbol, position_change)]

\* variant of update_position: a sell is added like a buy
update_position_sell_adds(o, pos) ==
    LET current_position == PositionsGet(pos, o.symbol)
        new_position == current_position + o.qty
    IN  IF o.side \notin BuySides \cup SellSides
        THEN [raised |-> "ValueError",
              error |-> [text |-> "Invalid side in update_position",
                         a |-> o.side, b |-> ""],
              positions |-> pos]
        ELSE [raised |-> "", error |-> NoError,
              positions |-> PositionsSet(pos, o.symbol, new_position)]

\* variant of update_position: an unknown side is booked as a sell
update_position_default_sell(o, pos) ==
    LET current_position == PositionsGet(pos, o.symbol)
        position_change == IF o.side \in BuySides THEN o.qty ELSE -o.qty
        new_position == current_position + position_change
    IN  [raised |-> "", error |-> NoError,
         positions |-> PositionsSet(pos, o.symbol, new_position)]

\* variant of update_position: a fill that would leave the position outside
\* the limit is refused (the limit is not known to the operation itself, so the
\* variant takes it from the engine)
update_position_revalidates(o, pos) ==
    LET current_position == PositionsGet(pos, o.symbol)
        position_change == IF o.side \in BuySides THEN o.qty ELSE -o.qty
        new_position == current_position + position_change
    IN  IF o.side \notin BuySides \cup SellSides
        THEN [raised |-> "ValueError",
              error |-> [text |-> "Invalid side in update_position",
                         a |-> o.side, b |-> ""],
              positions |-> pos]
        ELSE IF abs(new_position) > max_position
        THEN [raised |-> "", error |-> NoError, positions |-> pos]
        ELSE [raised |-> "", error |-> NoError,
              positions |-> PositionsSet(pos, o.symbol, new_position)]

\* variant of update_position: the ledger is rebuilt with the one entry
update_position_single_entry(o, pos) ==
    LET current_position == PositionsGet(pos, o.symbol)
        position_change == IF o.side \in BuySides THEN o.qty ELSE -o.qty
        new_position == current_position + position_change
    IN  IF o.side \notin BuySides \cup SellSides
        THEN [raised |-> "ValueError",
              error |-> [text |-> "Invalid side in update_position",
                         a |-> o.side, b |-> ""],
              positions |-> pos]
        ELSE [raised |-> "", error |-> NoError,
              positions |-> [s \in {o.symbol} |-> new_position]]

\* update_position: the exception raised, if any, and the ledger afterwards
update_position(o, pos) ==
    LET current_position == PositionsGet(pos, o.symbol)
        position_change == IF o.side \in BuySides THEN o.qty ELSE -o.qty
        new_position == current_position + position_change
    IN  IF o.side \notin BuySides \cup SellSides
        THEN [raised |-> "ValueError",
              error |-> [text |-> "Invalid side in update_position",
                         a |-> o.side, b |-> ""],
              positions |-> pos]
        ELSE [raised |-> "", error |-> NoError,
              positions |-> PositionsSet(pos, o.symbol, new_position)]

\* RiskEngine.get_position
get_position(pos, symbol) == PositionsGet(pos, symbol)

\* --------------------------------------------------------- fix_parser.py
\* A raw message is modelled by its fields after the split on the delimiter
\* and the strip (blank fields dropped): eq tells whether the field holds an
\* '='; tag and value are the stripped parts before and after the first '='.
NoRaw == [fields |-> <<>>, validate |-> FALSE]
NoMsg == [t \in {} |-> ""]

\* FixParser.REQUIRED_TAGS, and the empty list for every other message type
REQUIRED_TAGS(msg_type) ==
    IF msg_type = "D" THEN <<"35", "55", "54", "38", "40">>
    ELSE IF msg_type = "S" THEN <<"35", "55", "132", "133">>
    ELSE <<>>

\* FixParser.MSG_TYPES.get(msg_type, msg_type)
MSG_TYPES(msg_type) ==
    IF msg_type = "D" THEN "NewOrderSingle"
    ELSE IF msg_type = "S" THEN "Quote"
    ELSE IF msg_type = "8" THEN "ExecutionReport"
    ELSE IF msg_type = "0" THEN "Heartbeat"
    ELSE IF msg_type = "A" THEN "Logon"
    ELSE msg_type

\* parsed.get(tag)
ParsedGet(parsed, tag) == IF tag \in DOMAIN parsed THEN parsed[tag] ELSE "None"

\* variant of _validate_message: the Side value is not looked at
_validate_message_any_side(parsed) ==
    LET msg_type == ParsedGet(parsed, "35")
        required == REQUIRED_TAGS(msg_type)
        missing == SelectSeq(required, LAMBDA tag : tag \notin DOMAIN parsed)
    IN  IF missing # <<>>
        THEN [raised |-> "ValueError",
              error |-> [text |-> "Missing required tags for",
                         a |-> missing, b |-> MSG_TYPES(msg_type)]]
        ELSE IF msg_type = "D" /\ ParsedGet(parsed, "40") = "2"
                /\ "44" \notin DOMAIN parsed
        THEN [raised |-> "ValueError",
              error |-> [text |-> "Limit orders (OrdType=2) require tag 44 (Price)",
                         a |-> "44", b |-> ""]]
        ELSE [raised |-> "", error |-> NoError]

\* FixParser._validate_message: the exception raised, if any
_validate_message(parsed) ==
    LET msg_type == ParsedGet(parsed, "35")
        required == REQUIRED_TAGS(msg_type)
        missing == SelectSeq(required, LAMBDA tag : tag \notin DOMAIN parsed)
    IN  IF missing # <<>>
        THEN [raised |-> "ValueError",
              error |-> [text |-> "Missing required tags for",
                         a |-> missing, b |-> MSG_TYPES(msg_type)]]
        ELSE IF msg_type = "D" /\ ParsedGet(parsed, "40") = "2"
                /\ "44" \notin DOMAIN parsed
        THEN [raised |-> "ValueError",
              error |-> [text |-> "Limit orders (OrdType=2) require tag 44 (Price)",
                         a |-> "44", b |-> ""]]
        ELSE IF "54" \in DOMAIN parsed /\ parsed["54"] \notin {"1", "2"}
        THEN [raised |-> "ValueError",
              error |-> [text |-> "Invalid Side value",
                         a |-> parsed["54"], b |-> ""]]
        ELSE [raised |-> "", error |-> NoError]

RECURSIVE ParseFields(_, _)
\* the loop of parse over the fields: the first bad field raises, a repeated
\* tag keeps its last value
ParseFields(fields, parsed) ==
    IF fields = <<>> THEN [raised |-> "", error |-> NoError, parsed |-> parsed]
    ELSE LET field == Head(fields)
         IN  IF ~field.eq
             THEN [raised |-> "ValueError",
                   error |-> [text |-> "Invalid FIX field format",
                              a |-> field.tag, b |-> "missing '='"],
                   parsed |-> parsed]
             ELSE IF field.tag = ""
             THEN [raised |-> "ValueError",
                   error |-> [text |-> "Empty tag in FIX field",
                              a |-> "", b |-> ""],
                   parsed |-> parsed]
             ELSE ParseFields(Tail(fields),
                      [t \in DOMAIN parsed \cup {field.tag} |->
                          IF t = field.tag THEN field.value ELSE parsed[t]])

\* FixParser.parse(raw_message, validate=validate): the exception raised, if
\* any, and the dictionary returned
parse(fields, validate) ==
    IF fields = <<>>
    THEN [raised |-> "ValueError",
          error |-> [text |-> "Empty FIX message", a |-> "", b |-> ""],
          parsed |-> NoMsg]
    ELSE LET r == ParseFields(fields, NoMsg)
         IN  IF r.raised # "" THEN [r EXCEPT !.parsed = NoMsg]
             ELSE IF "35" \notin DOMAIN r.parsed
             THEN [raised |-> "ValueError",
                   error |-> [text |-> "Missing required tag 35 (MsgType)",
                              a |-> "35", b |-> ""],
                   parsed |-> NoMsg]
             ELSE IF validate /\ _validate_message(r.parsed).raised # ""
             THEN [raised |-> "ValueError",
                   error |-> _validate_message(r.parsed).error,
                   parsed |-> NoMsg]
             ELSE [raised |-> "", error |-> NoError, parsed |-> r.parsed]

\* ------------------------------------------------------------------ Init
Init ==
    /\ order = NoOrder
    /\ max_order_size = ArgMaxOrderSize
    /\ max_position = ArgMaxPosition
    /\ positions = [s \in {} |-> 0]
    /\ initialized = FALSE
    /\ events = <<>>
    /\ file = NoFile
    /\ path = ""
    /\ test_file = NoFile
    /\ fills = <<>>
    /\ last = NoCall
    /\ pc = "api"
    /\ trace = <<>>
    /\ workers = <<>>
    /\ raw = NoRaw
    /\ msg = NoMsg

\* --------------------------------------------------------------- actions
\* Order(symbol, qty, side, use_logger)
NewOrder(symbol, qty, side, use_logger) ==
    /\ order' = [symbol |-> symbol, qty |-> qty, side |-> side,
                 state |-> "NEW", use_logger |-> use_logger]
    /\ IF use_logger
       THEN log_order_created(order')
       ELSE UNCHANGED logger_vars
    /\ last' = [NoCall EXCEPT !.op = "Order"]
    /\ UNCHANGED <<max_order_size, max_position, positions, fills>>

\* variant of transition: the state is assigned before the table is consulted
Transition_assign_first(new_state) ==
    /\ order.state \in OrderState
    /\ order' = [order EXCEPT !.state = new_state]
    /\ IF new_state \in allowed(order.state)
       THEN /\ IF order.use_logger
               THEN log_state_change(order', order.state, new_state)
               ELSE UNCHANGED logger_vars
            /\ last' = [NoCall EXCEPT !.op = "transition", !.arg = new_state]
       ELSE /\ last' = [NoCall EXCEPT !.op = "transition", !.arg = new_state,
                            !.raised = "ValueError",
                            !.error = [text |-> "Bad transition",
                                       a |-> new_state, b |-> new_state]]
            /\ UNCHANGED logger_vars
    /\ UNCHANGED <<max_order_size, max_position, positions, fills>>

\* variant of transition: a failed write of the event file undoes the change
\* and leaves the call as an IOError
Transition_write_error_escapes(new_state) ==
    /\ order.state \in OrderState
    /\ IF new_state \in allowed(order.state)
       THEN IF order.use_logger
            THEN /\ log_state_change([order EXCEPT !.state = new_state],
                                     order.state, new_state)
                 /\ IF FileAt(path').events = events'
                    THEN /\ order' = [order EXCEPT !.state = new_state]
                         /\ last' = [NoCall EXCEPT !.op = "transition",
                                         !.arg = new_state]
                    ELSE /\ order' = order
                         /\ last' = [NoCall EXCEPT !.op = "transition",
                                         !.arg = new_state, !.raised = "IOError"]
            ELSE /\ order' = [order EXCEPT !.state = new_state]
                 /\ last' = [NoCall EXCEPT !.op = "transition", !.arg = new_state]
                 /\ UNCHANGED logger_vars
       ELSE /\ last' = [NoCall EXCEPT !.op = "transition", !.arg = new_state,
                            !.raised = "ValueError",
                            !.error = [text |-> "Bad transition",
                                       a |-> order.state, b |-> new_state]]
            /\ UNCHANGED <<order, logger_vars>>
    /\ UNCHANGED <<max_order_size, max_position, positions, fills>>

\* variant of transition: the attempt is logged before the table is consulted
Transition_logs_attempt(new_state) ==
    /\ order.state \in OrderState
    /\ IF order.use_logger
       THEN log_state_change(order, order.state, new_state)
       ELSE UNCHANGED logger_vars
    /\ IF new_state \in allowed(order.state)
       THEN /\ order' = [order EXCEPT !.state = new_state]
            /\ last' = [NoCall EXCEPT !.op = "transition", !.arg = new_state]
       ELSE /\ last' = [NoCall EXCEPT !.op = "transition", !.arg = new_state,
                            !.raised = "ValueError",
                            !.error = [text |-> "Bad transition",
                                       a |-> order.state, b |-> new_state]]
            /\ UNCHANGED order
    /\ UNCHANGED <<max_order_size, max_position, positions, fills>>

\* order.transition(new_state)
Transition(new_state) ==
    /\ order.state \in OrderState
    /\ IF new_state \in allowed(order.state)
       THEN /\ order' = [order EXCEPT !.state = new_state]
            /\ IF order.use_logger
               THEN log_state_change(order', order.state, new_state)
               ELSE UNCHANGED logger_vars
            /\ last' = [NoCall EXCEPT !.op = "transition", !.arg = new_state]
       ELSE /\ last' = [NoCall EXCEPT !.op = "transition", !.arg = new_state,
                            !.raised = "ValueError",
                            !.error = [text |-> "Bad transition",
                                       a |-> order.state, b |-> new_state]]
            /\ UNCHANGED <<order, logger_vars>>
    /\ UNCHANGED <<max_order_size, max_position, positions, fills>>

\* variant of check: an approved order is booked at once
Check_commits ==
    /\ order.state \in OrderState
    /\ LET r == check(order, positions, max_order_size, max_position)
       IN  /\ last' = [NoCall EXCEPT !.op = "check", !.ret = r.ret,
                            !.reason = r.reason]
           /\ positions' = IF r.ret
                           THEN update_position(order, positions).positions
                           ELSE positions
    /\ UNCHANGED <<order, max_order_size, max_position,
                   logger_vars, fills>>

\* risk.check(order)
Check ==
    /\ order.state \in OrderState
    /\ LET r == check(order, positions, max_order_size, max_position)
       IN  last' = [NoCall EXCEPT !.op = "check", !.ret = r.ret,
                        !.reason = r.reason]
    /\ UNCHANGED <<order, max_order_size, max_position, positions,
                   logger_vars, fills>>

\* risk.update_position(order)
UpdatePosition ==
    /\ order.state \in OrderState
    /\ (pc = "api") => Len(fills) < MaxFills
    /\ LET r == update_position(order, positions)
       IN  /\ positions' = r.positions
           /\ fills' = IF r.raised = ""
                       THEN Append(fills, [symbol |-> order.symbol,
                                           qty |-> order.qty,
                                           side |-> order.side])
                       ELSE fills
           /\ last' = [NoCall EXCEPT !.op = "update_position",
                           !.raised = r.raised, !.error = r.error,
                           !.follows_approval = (last.op = "check" /\ last.ret)]
    /\ UNCHANGED <<order, max_order_size, max_position, logger_vars>>

\* variant of get_position: the lookup stores the default (setdefault)
GetPosition_setdefault(symbol) ==
    /\ last' = [NoCall EXCEPT !.op = "get_position", !.arg = symbol,
                    !.value = get_position(positions, symbol)]
    /\ positions' = PositionsSet(positions, symbol, get_position(positions, symbol))
    /\ UNCHANGED <<order, max_order_size, max_position, logger_vars, fills>>

\* risk.get_position(symbol)
GetPosition(symbol) ==
    /\ last' = [NoCall EXCEPT !.op = "get_position", !.arg = symbol,
                    !.value = get_position(positions, symbol)]
    /\ UNCHANGED <<order, max_order_size, max_position, positions,
                   logger_vars, fills>>

\* The risk engine, driven by orders built with use_logger=False (neither
\* risk_engine.py nor such an order touches the Logger); the engine reads
\* symbol, qty and side of an order and never its state.
Next ==
    \/ \E symbol \in Symbols, qty \in Quantities, side \in Sides :
          NewOrder(symbol, qty, side, FALSE) /\ UNCHANGED flow_vars
    \/ Check /\ UNCHANGED flow_vars
    \/ UpdatePosition /\ UNCHANGED flow_vars
    \/ \E symbol \in Symbols : GetPosition(symbol) /\ UNCHANGED flow_vars

Spec == Init /\ [][Next]_vars

\* variant of the guarded fill: the fill follows any check, approved or not
CheckedUpdatePosition_any_check ==
    /\ last.op = "check"
    /\ UpdatePosition

\* if risk.check(order): ... risk.update_position(order), as every flow of the
\* repository books a fill (the transitions in between leave the engine alone)
CheckedUpdatePosition ==
    /\ last.op = "check"
    /\ last.ret
    /\ UpdatePosition

\* The risk engine used with discipline: a fill is booked only directly after
\* the check of the same order approved it.
NextChecked ==
    \/ \E symbol \in Symbols, qty \in Quantities, side \in Sides :
          NewOrder(symbol, qty, side, FALSE) /\ UNCHANGED flow_vars
    \/ Check /\ UNCHANGED flow_vars
    \/ CheckedUpdatePosition /\ UNCHANGED flow_vars
    \/ \E symbol \in Symbols : GetPosition(symbol) /\ UNCHANGED flow_vars

SpecChecked == Init /\ [][NextChecked]_vars

\* side values of every kind: the six accepted spellings, other spellings of
\* the same words, other codes and the empty string
SideValues == {"1", "BUY", "Buy", "2", "SELL", "Sell",
               "buy", "sell", "B", "S", "3", "9", ""}

\* The risk engine on orders of every side value, within and above the order
\* size limit.
NextSides ==
    \/ \E qty \in {ArgMaxOrderSize, ArgMaxOrderSize + 1}, side \in SideValues :
          NewOrder("AAPL", qty, side, FALSE) /\ UNCHANGED flow_vars
    \/ Check /\ UNCHANGED flow_vars
    \/ UpdatePosition /\ UNCHANGED flow_vars

SpecSides == Init /\ [][NextSides]_vars

\* The order state machine, the risk engine and the Logger together: orders
\* built with and without use_logger, on one symbol, one quantity and the two
\* FIX sides.
NextLog ==
    \/ \E symbol \in {"AAPL"}, side \in {"1", "2"}, use_logger \in BOOLEAN :
          NewOrder(symbol, 1, side, use_logger) /\ UNCHANGED flow_vars
    \/ \E new_state \in OrderState :
          Transition(new_state) /\ UNCHANGED flow_vars
    \/ Check /\ UNCHANGED flow_vars
    \/ UpdatePosition /\ UNCHANGED flow_vars
    \/ \E symbol \in Symbols : GetPosition(symbol) /\ UNCHANGED flow_vars

SpecLog == Init /\ [][NextLog]_vars

\* ------------------------------------------------ the Logger's own interface
\* variant of Logger(p): __init__ runs again on every construction
LoggerNew_reinit(p) ==
    /\ initialized' = TRUE
    /\ path' = p
    /\ events' = IF FileAt(p).exists THEN FileAt(p).events ELSE <<>>
    /\ last' = [NoCall EXCEPT !.op = "Logger", !.arg = p]
    /\ UNCHANGED <<order, max_order_size, max_position, positions, file,
                   test_file, fills>>

\* Logger(p)
LoggerNew(p) ==
    /\ initialized' = TRUE
    /\ path' = LoggerPath(p)
    /\ events' = LoggerLoad(p)
    /\ last' = [NoCall EXCEPT !.op = "Logger", !.arg = p]
    /\ UNCHANGED <<order, max_order_size, max_position, positions, file,
                   test_file, fills>>

\* logger.log_order_created(order), through a handle the caller holds
LogOrderCreated ==
    /\ initialized
    /\ order.state \in OrderState
    /\ log_order_created(order)
    /\ last' = [NoCall EXCEPT !.op = "log_order_created"]
    /\ UNCHANGED <<order, max_order_size, max_position, positions, fills>>

\* logger.log_state_change(order, old_state, new_state)
LogStateChange(old_state, new_state) ==
    /\ initialized
    /\ order.state \in OrderState
    /\ log_state_change(order, old_state, new_state)
    /\ last' = [NoCall EXCEPT !.op = "log_state_change", !.arg = new_state]
    /\ UNCHANGED <<order, max_order_size, max_position, positions, fills>>

\* logger.clear()
Clear ==
    /\ initialized
    /\ events' = <<>>
    /\ UNCHANGED <<initialized, path>>
    /\ save(events')
    /\ last' = [NoCall EXCEPT !.op = "clear"]
    /\ UNCHANGED <<order, max_order_size, max_position, positions, fills>>

\* an event left in a file by an earlier run of the program
PriorEvent(symbol) ==
    [event_type |-> "ORDER_CREATED",
     data |-> [symbol |-> symbol, qty |-> 1, side |-> "1", state |-> "NEW"]]

\* the program starts with either file absent or left by an earlier run
InitFiles ==
    /\ order = NoOrder
    /\ max_order_size = ArgMaxOrderSize
    /\ max_position = ArgMaxPosition
    /\ positions = [s \in {} |-> 0]
    /\ initialized = FALSE
    /\ events = <<>>
    /\ file \in {NoFile, [exists |-> TRUE, events |-> <<PriorEvent("AAPL")>>]}
    /\ path = ""
    /\ test_file \in {NoFile, [exists |-> TRUE, events |-> <<PriorEvent("MSFT")>>]}
    /\ fills = <<>>
    /\ last = NoCall
    /\ pc = "api"
    /\ trace = <<>>
    /\ workers = <<>>
    /\ raw = NoRaw
    /\ msg = NoMsg

\* Handles on the Logger taken with either path, orders that log through
\* their own Logger(), direct calls and clear, on files an earlier run may
\* have left.
NextSingleton ==
    \/ \E p \in Paths : LoggerNew(p) /\ UNCHANGED flow_vars
    \/ NewOrder("AAPL", 1, "1", TRUE) /\ UNCHANGED flow_vars
    \/ LogOrderCreated /\ UNCHANGED flow_vars
    \/ Transition("ACKED") /\ UNCHANGED flow_vars
    \/ Clear /\ UNCHANGED flow_vars

SpecSingleton == InitFiles /\ [][NextSingleton]_vars

\* ------------------------------------------------------- scripted flows
\* Logger.get_events
get_events(evs, event_type) ==
    IF event_type # ""
    THEN SelectSeq(evs, LAMBDA e : e.event_type = event_type)
    ELSE evs

\* Logger.get_stats
get_stats(evs) ==
    LET types == {evs[i].event_type : i \in 1 .. Len(evs)}
    IN  [total_events |-> Len(evs),
         by_type |-> [t \in types |->
                        Cardinality({i \in 1 .. Len(evs) : evs[i].event_type = t})]]

\* logger.log_risk_check(order, passed, reason)
LogRiskCheck(passed, reason) ==
    /\ initialized
    /\ order.state \in OrderState
    /\ log_risk_check(order, passed, reason)
    /\ last' = [NoCall EXCEPT !.op = "log_risk_check", !.ret = passed]
    /\ UNCHANGED <<order, max_order_size, max_position, positions, fills>>

\* logger.log_position_update(symbol, old_position, new_position, order)
LogPositionUpdate(symbol, old_position, new_position) ==
    /\ initialized
    /\ order.state \in OrderState
    /\ log_position_update(symbol, old_position, new_position, order)
    /\ last' = [NoCall EXCEPT !.op = "log_position_update", !.arg = symbol]
    /\ UNCHANGED <<order, max_order_size, max_position, positions, fills>>

\* logger.get_events(event_type); event_type = "" stands for None
GetEvents(event_type) ==
    /\ initialized
    /\ last' = [NoCall EXCEPT !.op = "get_events", !.arg = event_type,
                    !.value = get_events(events, event_type)]
    /\ UNCHANGED <<order, max_order_size, max_position, positions,
                   logger_vars, fills>>

\* logger.get_stats()
GetStats ==
    /\ initialized
    /\ last' = [NoCall EXCEPT !.op = "get_stats", !.value = get_stats(events)]
    /\ UNCHANGED <<order, max_order_size, max_position, positions,
                   logger_vars, fills>>

\* The sink as the flows of the repository feed it: an order that logs its own
\* creation and transitions, and the two direct risk and position calls.
NextSink ==
    \/ \E side \in {"1", "2"} :
          NewOrder("AAPL", 1, side, TRUE) /\ UNCHANGED flow_vars
    \/ \E new_state \in {"ACKED", "FILLED", "REJECTED"} :
          Transition(new_state) /\ UNCHANGED flow_vars
    \/ \E passed \in BOOLEAN, reason \in {"", "Order size exceeds limit"} :
          LogRiskCheck(passed, reason) /\ UNCHANGED flow_vars
    \/ \E new_position \in {-1, 1} :
          LogPositionUpdate("AAPL", 0, new_position) /\ UNCHANGED flow_vars

SpecSink == Init /\ [][NextSink]_vars

\* The sink between clears: events of two kinds are logged, the list is
\* cleared and queried.
NextQueries ==
    \/ NewOrder("AAPL", 1, "1", TRUE) /\ UNCHANGED flow_vars
    \/ LogRiskCheck(FALSE, "Order size exceeds limit") /\ UNCHANGED flow_vars
    \/ Clear /\ UNCHANGED flow_vars
    \/ \E event_type \in {"", "RISK_REJECTED"} :
          GetEvents(event_type) /\ UNCHANGED flow_vars
    \/ GetStats /\ UNCHANGED flow_vars

SpecQueries == Init /\ [][NextQueries]_vars

\* the call just made by the n-th order's part of a script, as the history
\* keeps it
Traced(n) ==
    trace' = Append(trace,
                    [n |-> n, op |-> last'.op, arg |-> last'.arg,
                     ret |-> last'.ret, raised |-> last'.raised,
                     symbol |-> order'.symbol, state |-> order'.state,
                     position |-> get_position(positions', order'.symbol)])

\* RiskEngine() with the defaults of its signature
DefaultMaxOrderSize == 1000
DefaultMaxPosition == 2000

\* main.py -----------------------------------------------------------------
MainSymbols == {"AAPL", "MSFT"}
MainQuantities == {500, 1000, 1500}
MainSides == {"1", "2", "9"}

\* main.py up to line 7: the engine is built, no Logger exists yet
InitMain ==
    /\ order = NoOrder
    /\ max_order_size = DefaultMaxOrderSize
    /\ max_position = DefaultMaxPosition
    /\ positions = [s \in {} |-> 0]
    /\ initialized = FALSE
    /\ events = <<>>
    /\ file \in {NoFile, [exists |-> TRUE, events |-> <<PriorEvent("AAPL")>>]}
    /\ path = ""
    /\ test_file = NoFile
    /\ fills = <<>>
    /\ last = NoCall
    /\ pc = "main_logger"
    /\ trace = <<>>
    /\ workers = <<>>
    /\ raw = NoRaw
    /\ msg = NoMsg

\* log = Logger()
MainLogger ==
    /\ pc = "main_logger"
    /\ LoggerNew(DefaultPath)
    /\ pc' = "main_order"
    /\ Traced(1)
    /\ UNCHANGED <<workers, parser_vars>>

\* order = Order(msg["55"], int(msg["38"]), msg["54"])
MainOrder ==
    /\ pc = "main_order"
    /\ \E symbol \in MainSymbols, qty \in MainQuantities, side \in MainSides :
          NewOrder(symbol, qty, side, TRUE)
    /\ pc' = "main_check"
    /\ Traced(1)
    /\ UNCHANGED <<workers, parser_vars>>

\* variant of the branch of main.py: the order is acknowledged whatever
\* check returned
MainCheck_always_ack ==
    /\ pc = "main_check"
    /\ Check
    /\ pc' = "main_ack"
    /\ Traced(1)
    /\ UNCHANGED <<workers, parser_vars>>

\* if risk.check(order): ... else: ...
MainCheck ==
    /\ pc = "main_check"
    /\ Check
    /\ pc' = IF last'.ret THEN "main_ack" ELSE "main_reject"
    /\ Traced(1)
    /\ UNCHANGED <<workers, parser_vars>>

\* order.transition(new_state) at one point of main.py
MainTransition(at, new_state, then) ==
    /\ pc = at
    /\ Transition(new_state)
    /\ pc' = then
    /\ Traced(1)
    /\ UNCHANGED <<workers, parser_vars>>

\* log.log_state_change(order, old_state, new_state) at one point of main.py
MainLogStateChange(at, old_state, new_state, then) ==
    /\ pc = at
    /\ LogStateChange(old_state, new_state)
    /\ pc' = then
    /\ Traced(1)
    /\ UNCHANGED <<workers, parser_vars>>

\* risk.update_position(order)
MainUpdatePosition ==
    /\ pc = "main_update"
    /\ UpdatePosition
    /\ pc' = "main_report"
    /\ Traced(1)
    /\ UNCHANGED <<workers, parser_vars>>

\* risk.get_position('AAPL') in the closing print
MainReport ==
    /\ pc = "main_report"
    /\ GetPosition("AAPL")
    /\ pc' = "done"
    /\ Traced(1)
    /\ UNCHANGED <<workers, parser_vars>>

NextMain ==
    \/ MainLogger
    \/ MainOrder
    \/ MainCheck
    \/ MainTransition("main_ack", "ACKED", "main_log_ack")
    \/ MainLogStateChange("main_log_ack", "NEW", "ACKED", "main_fill")
    \/ MainTransition("main_fill", "FILLED", "main_log_fill")
    \/ MainLogStateChange("main_log_fill", "ACKED", "FILLED", "main_update")
    \/ MainUpdatePosition
    \/ MainTransition("main_reject", "REJECTED", "main_log_reject")
    \/ MainLogStateChange("main_log_reject", "NEW", "REJECTED", "main_report")
    \/ MainReport

SpecMain == InitMain /\ [][NextMain]_vars

\* test/test_logger.py, tests 1 to 3 -----------------------------------------
LoggerTestSymbols == {"AAPL", "MSFT"}
LoggerTestQuantities == {100, 200}
LoggerTestSides == {"1", "2"}

\* before the test: either file may be left from an earlier run
InitLoggerTest ==
    /\ order = NoOrder
    /\ max_order_size = DefaultMaxOrderSize
    /\ max_position = DefaultMaxPosition
    /\ positions = [s \in {} |-> 0]
    /\ initialized = FALSE
    /\ events = <<>>
    /\ file \in {NoFile, [exists |-> TRUE, events |-> <<PriorEvent("AAPL")>>]}
    /\ path = ""
    /\ test_file \in {NoFile, [exists |-> TRUE, events |-> <<PriorEvent("MSFT")>>]}
    /\ fills = <<>>
    /\ last = NoCall
    /\ pc = "lt_remove"
    /\ trace = <<>>
    /\ workers = <<>>
    /\ raw = NoRaw
    /\ msg = NoMsg

\* if os.path.exists(test_file): os.remove(test_file)
LoggerTestRemove ==
    /\ pc = "lt_remove"
    /\ test_file' = NoFile
    /\ last' = [NoCall EXCEPT !.op = "remove", !.arg = TestPath]
    /\ pc' = "lt_logger1"
    /\ UNCHANGED <<order, max_order_size, max_position, positions,
                   initialized, events, file, path, fills, workers,
                   parser_vars>>
    /\ Traced(1)

\* logger1 = Logger(test_file); logger2 = Logger(test_file)
LoggerTestLogger(at, then) ==
    /\ pc = at
    /\ LoggerNew(TestPath)
    /\ pc' = then
    /\ Traced(1)
    /\ UNCHANGED <<workers, parser_vars>>

\* logger1.clear()
LoggerTestClear ==
    /\ pc = "lt_clear"
    /\ Clear
    /\ pc' = "lt_order"
    /\ Traced(1)
    /\ UNCHANGED <<workers, parser_vars>>

\* order1 = Order(symbol="AAPL", qty=100, side="1")
LoggerTestOrder ==
    /\ pc = "lt_order"
    /\ \E symbol \in LoggerTestSymbols, qty \in LoggerTestQuantities,
          side \in LoggerTestSides :
          NewOrder(symbol, qty, side, TRUE)
    /\ pc' = "lt_log_created"
    /\ Traced(1)
    /\ UNCHANGED <<workers, parser_vars>>

\* logger1.log_order_created(order1)
LoggerTestLogOrderCreated ==
    /\ pc = "lt_log_created"
    /\ LogOrderCreated
    /\ pc' = "lt_ack"
    /\ Traced(1)
    /\ UNCHANGED <<workers, parser_vars>>

\* order1.transition(new_state)
LoggerTestTransition(at, new_state, then) ==
    /\ pc = at
    /\ Transition(new_state)
    /\ pc' = then
    /\ Traced(1)
    /\ UNCHANGED <<workers, parser_vars>>

\* logger1.log_state_change(order1, old_state, order1.state)
LoggerTestLogStateChange(at, old_state, then) ==
    /\ pc = at
    /\ LogStateChange(old_state, order.state)
    /\ pc' = then
    /\ Traced(1)
    /\ UNCHANGED <<workers, parser_vars>>

NextLoggerTest ==
    \/ LoggerTestRemove
    \/ LoggerTestLogger("lt_logger1", "lt_logger2")
    \/ LoggerTestLogger("lt_logger2", "lt_clear")
    \/ LoggerTestClear
    \/ LoggerTestOrder
    \/ LoggerTestLogOrderCreated
    \/ LoggerTestTransition("lt_ack", "ACKED", "lt_log_ack")
    \/ LoggerTestLogStateChange("lt_log_ack", "NEW", "lt_fill")
    \/ LoggerTestTransition("lt_fill", "FILLED", "lt_log_fill")
    \/ LoggerTestLogStateChange("lt_log_fill", "ACKED", "done")

SpecLoggerTest == InitLoggerTest /\ [][NextLoggerTest]_vars

\* test/test_risk_engine.py ------------------------------------------------
\* RiskEngine(max_order_size=1000, max_position=2000)
RiskTestMaxOrderSize == 1000
RiskTestMaxPosition == 2000

\* the eight orders of the test; filled: the approved branch goes on to
\* FILLED and update_position; rejected: the other branch transitions to
\* REJECTED
RiskTestOrders ==
    << [symbol |-> "AAPL",  qty |-> 500,  side |-> "1", filled |-> TRUE,  rejected |-> FALSE],
       [symbol |-> "AAPL",  qty |-> 800,  side |-> "1", filled |-> TRUE,  rejected |-> FALSE],
       [symbol |-> "MSFT",  qty |-> 1500, side |-> "1", filled |-> FALSE, rejected |-> TRUE],
       [symbol |-> "AAPL",  qty |-> 800,  side |-> "1", filled |-> FALSE, rejected |-> TRUE],
       [symbol |-> "AAPL",  qty |-> 600,  side |-> "2", filled |-> TRUE,  rejected |-> FALSE],
       [symbol |-> "GOOGL", qty |-> 300,  side |-> "1", filled |-> TRUE,  rejected |-> FALSE],
       [symbol |-> "TSLA",  qty |-> 1000, side |-> "2", filled |-> TRUE,  rejected |-> FALSE],
       [symbol |-> "TSLA",  qty |-> 1500, side |-> "2", filled |-> FALSE, rejected |-> TRUE] >>

\* the number of the order the test is working on
RiskTestN == Cardinality({i \in 1 .. Len(trace) : trace[i].op = "Order"})

\* where the test goes after the n-th order
RiskTestAfter(n) == IF n = Len(RiskTestOrders) THEN "rt_assert_aapl" ELSE "rt_order"

InitRiskTest ==
    /\ order = NoOrder
    /\ max_order_size = RiskTestMaxOrderSize
    /\ max_position = RiskTestMaxPosition
    /\ positions = [s \in {} |-> 0]
    /\ initialized = FALSE
    /\ events = <<>>
    /\ file \in {NoFile, [exists |-> TRUE, events |-> <<PriorEvent("AAPL")>>]}
    /\ path = ""
    /\ test_file = NoFile
    /\ fills = <<>>
    /\ last = NoCall
    /\ pc = "rt_order"
    /\ trace = <<>>
    /\ workers = <<>>
    /\ raw = NoRaw
    /\ msg = NoMsg

\* orderN = Order(symbol=..., qty=..., side=...)
RiskTestOrder ==
    /\ pc = "rt_order"
    /\ LET o == RiskTestOrders[RiskTestN + 1]
       IN  NewOrder(o.symbol, o.qty, o.side, TRUE)
    /\ pc' = "rt_check"
    /\ Traced(RiskTestN + 1)
    /\ UNCHANGED <<workers, parser_vars>>

\* if risk.check(orderN): ... else: ...
RiskTestCheck ==
    /\ pc = "rt_check"
    /\ Check
    /\ pc' = IF last'.ret THEN "rt_ack"
             ELSE IF RiskTestOrders[RiskTestN].rejected THEN "rt_reject"
             ELSE RiskTestAfter(RiskTestN)
    /\ Traced(RiskTestN)
    /\ UNCHANGED <<workers, parser_vars>>

\* orderN.transition(OrderState.ACKED)
RiskTestAck ==
    /\ pc = "rt_ack"
    /\ Transition("ACKED")
    /\ pc' = IF RiskTestOrders[RiskTestN].filled THEN "rt_fill"
             ELSE RiskTestAfter(RiskTestN)
    /\ Traced(RiskTestN)
    /\ UNCHANGED <<workers, parser_vars>>

\* orderN.transition(OrderState.FILLED)
RiskTestFill ==
    /\ pc = "rt_fill"
    /\ Transition("FILLED")
    /\ pc' = "rt_update"
    /\ Traced(RiskTestN)
    /\ UNCHANGED <<workers, parser_vars>>

\* risk.update_position(orderN)
RiskTestUpdatePosition ==
    /\ pc = "rt_update"
    /\ UpdatePosition
    /\ pc' = RiskTestAfter(RiskTestN)
    /\ Traced(RiskTestN)
    /\ UNCHANGED <<workers, parser_vars>>

\* orderN.transition(OrderState.REJECTED)
RiskTestReject ==
    /\ pc = "rt_reject"
    /\ Transition("REJECTED")
    /\ pc' = RiskTestAfter(RiskTestN)
    /\ Traced(RiskTestN)
    /\ UNCHANGED <<workers, parser_vars>>

\* risk.get_position(symbol) in the closing assertions
RiskTestGetPosition(at, symbol, then) ==
    /\ pc = at
    /\ GetPosition(symbol)
    /\ pc' = then
    /\ Traced(RiskTestN)
    /\ UNCHANGED <<workers, parser_vars>>

NextRiskTest ==
    \/ RiskTestOrder
    \/ RiskTestCheck
    \/ RiskTestAck
    \/ RiskTestFill
    \/ RiskTestUpdatePosition
    \/ RiskTestReject
    \/ RiskTestGetPosition("rt_assert_aapl", "AAPL", "rt_assert_googl")
    \/ RiskTestGetPosition("rt_assert_googl", "GOOGL", "rt_assert_tsla")
    \/ RiskTestGetPosition("rt_assert_tsla", "TSLA", "done")

SpecRiskTest == InitRiskTest /\ [][NextRiskTest]_vars

\* two workflows on one RiskEngine -----------------------------------------
Workers == {1, 2}

\* a workflow before it has built its order
IdleWorker == [order |-> NoOrder, pc |-> "order", ret |-> FALSE,
               new_position |-> 0, committed |-> 0, updated |-> FALSE]

\* new_position as check computes it from the ledger it reads
Hypothetical(o, pos) ==
    PositionsGet(pos, o.symbol) + (IF o.side \in BuySides THEN o.qty ELSE -o.qty)

\* the call just made by workflow w, as the history keeps it
WorkerTraced(w) ==
    trace' = Append(trace,
                    [n |-> w, op |-> last'.op, arg |-> last'.arg,
                     ret |-> last'.ret, raised |-> last'.raised,
                     symbol |-> workers'[w].order.symbol,
                     state |-> workers'[w].order.state,
                     position |-> get_position(positions',
                                               workers'[w].order.symbol)])

\* one engine, whose order limit is the small one or as large as the position
\* limit, and two workflows about to start
InitWorkers ==
    /\ order = NoOrder
    /\ max_order_size \in {ArgMaxOrderSize, ArgMaxPosition}
    /\ max_position = ArgMaxPosition
    /\ positions = [s \in {} |-> 0]
    /\ initialized = FALSE
    /\ events = <<>>
    /\ file = NoFile
    /\ path = ""
    /\ test_file = NoFile
    /\ fills = <<>>
    /\ last = NoCall
    /\ pc = "workers"
    /\ trace = <<>>
    /\ workers = [w \in Workers |-> IdleWorker]
    /\ raw = NoRaw
    /\ msg = NoMsg

\* workflow w: Order("AAPL", qty, side, use_logger=False)
WorkerOrder(w, qty, side) ==
    /\ workers[w].pc = "order"
    /\ workers' = [workers EXCEPT ![w].order =
                       [symbol |-> "AAPL", qty |-> qty, side |-> side,
                        state |-> "NEW", use_logger |-> FALSE],
                   ![w].pc = "check"]
    /\ last' = [NoCall EXCEPT !.op = "Order"]
    /\ UNCHANGED <<order, max_order_size, max_position, positions,
                   logger_vars, fills, pc, parser_vars>>
    /\ WorkerTraced(w)

\* workflow w: if risk.check(order): ... else: ...
WorkerCheck(w) ==
    /\ workers[w].pc = "check"
    /\ LET r == check(workers[w].order, positions, max_order_size, max_position)
       IN  /\ workers' = [workers EXCEPT
                   ![w].ret = r.ret,
                   ![w].new_position = Hypothetical(workers[w].order, positions),
                   ![w].pc = IF r.ret THEN "ack" ELSE "reject"]
           /\ last' = [NoCall EXCEPT !.op = "check", !.ret = r.ret,
                            !.reason = r.reason]
    /\ UNCHANGED <<order, max_order_size, max_position, positions,
                   logger_vars, fills, pc, parser_vars>>
    /\ WorkerTraced(w)

\* workflow w: order.transition(new_state)
WorkerTransition(w, at, new_state, then) ==
    /\ workers[w].pc = at
    /\ new_state \in allowed(workers[w].order.state)
    /\ workers' = [workers EXCEPT ![w].order.state = new_state, ![w].pc = then]
    /\ last' = [NoCall EXCEPT !.op = "transition", !.arg = new_state]
    /\ UNCHANGED <<order, max_order_size, max_position, positions,
                   logger_vars, fills, pc, parser_vars>>
    /\ WorkerTraced(w)

\* workflow w: risk.update_position(order)
WorkerUpdatePosition(w) ==
    /\ workers[w].pc = "update"
    /\ LET r == update_position(workers[w].order, positions)
       IN  /\ positions' = r.positions
           /\ fills' = IF r.raised = ""
                       THEN Append(fills, [symbol |-> workers[w].order.symbol,
                                           qty |-> workers[w].order.qty,
                                           side |-> workers[w].order.side])
                       ELSE fills
           /\ last' = [NoCall EXCEPT !.op = "update_position",
                           !.raised = r.raised, !.error = r.error]
           /\ workers' = [workers EXCEPT
                   ![w].committed = get_position(r.positions,
                                                 workers[w].order.symbol),
                   ![w].updated = TRUE,
                   ![w].pc = "done"]
    /\ UNCHANGED <<order, max_order_size, max_position, logger_vars, pc,
                   parser_vars>>
    /\ WorkerTraced(w)

\* The steps of the two workflows interleave freely: nothing in the engine
\* or in the flows holds a lock.
NextWorkers ==
    \E w \in Workers :
        \/ \E qty \in Quantities, side \in {"1", "2"} : WorkerOrder(w, qty, side)
        \/ WorkerCheck(w)
        \/ WorkerTransition(w, "ack", "ACKED", "fill")
        \/ WorkerTransition(w, "fill", "FILLED", "update")
        \/ WorkerUpdatePosition(w)
        \/ WorkerTransition(w, "reject", "REJECTED", "done")

SpecWorkers == InitWorkers /\ [][NextWorkers]_vars

\* --------------------------------------------------------------- parsing
\* fix.parse(raw_message, validate=validate) and what it does to the engine,
\* the order and the Logger: nothing
ParseCall(fields, validate) ==
    /\ raw' = [fields |-> fields, validate |-> validate]
    /\ LET r == parse(fields, validate)
       IN  /\ msg' = r.parsed
           /\ last' = [NoCall EXCEPT !.op = "parse", !.raised = r.raised,
                           !.error = r.error]
    /\ UNCHANGED <<order, max_order_size, max_position, positions,
                   logger_vars, fills>>

\* msg = fix.parse(raw_message, validate=validate)
Parse(fields, validate) ==
    /\ ParseCall(fields, validate)
    /\ UNCHANGED <<pc, trace, workers>>

\* the fields a message may carry for one tag: none, or one of a few values
FieldChoices(tag) ==
    LET values == IF tag = "35" THEN {"D", "S", "8"}
                  ELSE IF tag = "54" THEN {"1", "2", "9"}
                  ELSE IF tag = "40" THEN {"1", "2"}
                  ELSE IF tag = "55" THEN {"AAPL"}
                  ELSE IF tag = "38" THEN {"500", "1500", "abc"}
                  ELSE IF tag = "44" THEN {"150.50"}
                  ELSE {"2800.00"}
    IN  {<<>>} \cup {<<[tag |-> tag, eq |-> TRUE, value |-> v]>> : v \in values}

\* messages with their fields in the order 35, 55, 54, 38, 40, 44, 132, 133
OrderedMessages ==
    {f35 \o f55 \o f54 \o f38 \o f40 \o f44 \o f132 \o f133 :
        f35 \in FieldChoices("35"), f55 \in FieldChoices("55"),
        f54 \in FieldChoices("54"), f38 \in FieldChoices("38"),
        f40 \in FieldChoices("40"), f44 \in FieldChoices("44"),
        f132 \in FieldChoices("132"), f133 \in FieldChoices("133")}

\* messages a split cannot turn into tag=value pairs, and one that repeats a
\* tag: a field without '=', a field with nothing before '=', a second Side
BrokenMessages ==
    {<<[tag |-> "35", eq |-> TRUE, value |-> "D"],
       [tag |-> "garbage", eq |-> FALSE, value |-> ""]>>,
     <<[tag |-> "", eq |-> TRUE, value |-> "D"]>>,
     <<[tag |-> "35", eq |-> TRUE, value |-> "D"],
       [tag |-> "55", eq |-> TRUE, value |-> "AAPL"],
       [tag |-> "54", eq |-> TRUE, value |-> "9"],
       [tag |-> "38", eq |-> TRUE, value |-> "500"],
       [tag |-> "40", eq |-> TRUE, value |-> "1"],
       [tag |-> "54", eq |-> TRUE, value |-> "1"]>>}

\* a message has arrived and is about to be parsed, with or without validation
InitParser ==
    /\ order = NoOrder
    /\ max_order_size = DefaultMaxOrderSize
    /\ max_position = DefaultMaxPosition
    /\ positions = [s \in {} |-> 0]
    /\ initialized = FALSE
    /\ events = <<>>
    /\ file = NoFile
    /\ path = ""
    /\ test_file = NoFile
    /\ fills = <<>>
    /\ last = NoCall
    /\ pc = "parse"
    /\ trace = <<>>
    /\ workers = <<>>
    /\ raw \in [fields : OrderedMessages \cup BrokenMessages, validate : BOOLEAN]
    /\ msg = NoMsg

\* The parser on its own: a call depends on nothing but its arguments.
NextParser == Parse(raw.fields, raw.validate)

SpecParser == InitParser /\ [][NextParser]_vars

\* ------------------------------------------ main.py from the raw message on
\* int(s) on the quantity strings of the messages: the decimal literals give
\* their number, any other string raises ValueError
int(s) ==
    IF s = "500" THEN [raised |-> "", value |-> 500]
    ELSE IF s = "1500" THEN [raised |-> "", value |-> 1500]
    ELSE [raised |-> "ValueError", value |-> 0]

\* main.py up to line 7, with the message of line 11 still to parse
InitPipeline ==
    /\ order = NoOrder
    /\ max_order_size = DefaultMaxOrderSize
    /\ max_position = DefaultMaxPosition
    /\ positions = [s \in {} |-> 0]
    /\ initialized = FALSE
    /\ events = <<>>
    /\ file = NoFile
    /\ path = ""
    /\ test_file = NoFile
    /\ fills = <<>>
    /\ last = NoCall
    /\ pc = "main_logger"
    /\ trace = <<>>
    /\ workers = <<>>
    /\ raw \in [fields : OrderedMessages \cup BrokenMessages, validate : {TRUE}]
    /\ msg = NoMsg

\* log = Logger()
PipelineLogger ==
    /\ pc = "main_logger"
    /\ LoggerNew(DefaultPath)
    /\ pc' = "main_parse"
    /\ Traced(1)
    /\ UNCHANGED <<workers, parser_vars>>

\* msg = fix.parse(raw): an exception ends the script
PipelineParse ==
    /\ pc = "main_parse"
    /\ ParseCall(raw.fields, raw.validate)
    /\ pc' = IF last'.raised = "" THEN "main_build" ELSE "crashed"
    /\ Traced(1)
    /\ UNCHANGED workers

\* order = Order(msg["55"], int(msg["38"]), msg["54"]): the arguments are
\* evaluated left to right; a missing key raises KeyError and a quantity that
\* is no integer literal raises ValueError, either of which ends the script
PipelineOrder ==
    /\ pc = "main_build"
    /\ LET missing == SelectSeq(<<"55", "38", "54">>,
                                LAMBDA tag : tag \notin DOMAIN msg)
           bad_qty == "38" \in DOMAIN msg /\ int(msg["38"]).raised # ""
           key_first == missing # <<>> /\ (~bad_qty \/ Head(missing) = "55")
       IN  IF key_first
           THEN /\ last' = [NoCall EXCEPT !.op = "Order", !.raised = "KeyError",
                                !.error = [text |-> "KeyError",
                                           a |-> Head(missing), b |-> ""]]
                /\ pc' = "crashed"
                /\ UNCHANGED <<order, max_order_size, max_position, positions,
                               logger_vars, fills>>
           ELSE IF bad_qty
           THEN /\ last' = [NoCall EXCEPT !.op = "Order", !.raised = "ValueError",
                                !.error = [text |-> "invalid literal for int()",
                                           a |-> msg["38"], b |-> ""]]
                /\ pc' = "crashed"
                /\ UNCHANGED <<order, max_order_size, max_position, positions,
                               logger_vars, fills>>
           ELSE /\ NewOrder(msg["55"], int(msg["38"]).value, msg["54"], TRUE)
                /\ pc' = "main_check"
    /\ Traced(1)
    /\ UNCHANGED <<workers, parser_vars>>

\* main.py as a whole; the statements of the script run one after the other
\* until it ends or an exception ends it
NextPipeline ==
    \/ PipelineLogger
    \/ PipelineParse
    \/ PipelineOrder
    \/ MainCheck
    \/ MainTransition("main_ack", "ACKED", "main_log_ack")
    \/ MainLogStateChange("main_log_ack", "NEW", "ACKED", "main_fill")
    \/ MainTransition("main_fill", "FILLED", "main_log_fill")
    \/ MainLogStateChange("main_log_fill", "ACKED", "FILLED", "main_update")
    \/ MainUpdatePosition
    \/ MainTransition("main_reject", "REJECTED", "main_log_reject")
    \/ MainLogStateChange("main_log_reject", "NEW", "REJECTED", "main_report")
    \/ MainReport

SpecPipeline == InitPipeline /\ [][NextPipeline]_vars /\ WF_vars(NextPipeline)

\* =================================================================
\* Properties
\* =================================================================
\* the transition table of the specification (section 4.1)
AllowedPairs == {<<"NEW", "ACKED">>, <<"NEW", "REJECTED">>,
                 <<"ACKED", "FILLED">>, <<"ACKED", "CANCELED">>}
TerminalStates == {"FILLED", "CANCELED", "REJECTED"}
\* +quantity for a buy, -quantity for a sell
SignedQty(o) == IF o.side \in BuySides THEN o.qty ELSE -o.qty
Recognised(side) == side \in BuySides \cup SellSides

\* C1: transition(t) from state s succeeds and sets the state to t exactly
\* when (s, t) is NEW->ACKED, NEW->REJECTED, ACKED->FILLED or
\* ACKED->CANCELED; every other call fails and leaves the state s.
C1_TransitionIffAllowed ==
    [][last'.op = "transition" =>
         IF <<order.state, last'.arg>> \in AllowedPairs
         THEN last'.raised = "" /\ order'.state = last'.arg
         ELSE last'.raised # "" /\ order'.state = order.state]_vars

\* a transition out of FILLED has been refused
C1_Witness ==
    /\ last.op = "transition"
    /\ last.raised = "ValueError"
    /\ last.arg = "CANCELED"
    /\ order.state = "FILLED"

\* C2: an order in FILLED, CANCELED or REJECTED keeps that state under every
\* later call on it, and no call on an order moves it (back) to NEW.
C2_TerminalIsFinal ==
    [][last'.op # "Order" =>
         /\ (order.state \in TerminalStates => order'.state = order.state)
         /\ (order.state # "NEW" => order'.state # "NEW")]_vars

\* a fill has been booked for an order that is FILLED and logs its changes
C2_Witness ==
    /\ order.state = "FILLED"
    /\ order.use_logger
    /\ last.op = "update_position"
    /\ last.raised = ""

\* C3: a transition to a state outside the allowed set fails with an error
\* that names the current and the requested state, and leaves the order's
\* symbol, quantity, side and state as they were.
C3_BadTransitionFails ==
    [][(last'.op = "transition" /\ <<order.state, last'.arg>> \notin AllowedPairs) =>
         /\ last'.raised = "ValueError"
         /\ last'.error.text = "Bad transition"
         /\ last'.error.a = order.state
         /\ last'.error.b = last'.arg
         /\ order' = order]_vars

\* NEW -> FILLED has been refused and the order is still NEW
C3_Witness ==
    /\ last.op = "transition"
    /\ last.raised = "ValueError"
    /\ last.error = [text |-> "Bad transition", a |-> "NEW", b |-> "FILLED"]
    /\ order.state = "NEW"

\* C4: check leaves the ledger (keys and values) as it was, and a check
\* repeated directly on the same order returns the same result.
C4_CheckReadOnly ==
    [][last'.op = "check" =>
         /\ positions' = positions
         /\ (last.op = "check" => last'.ret = last.ret)]_vars

\* a check was approved on a ledger that holds a position
C4_Witness ==
    /\ last.op = "check"
    /\ last.ret
    /\ order.symbol \in DOMAIN positions
    /\ positions[order.symbol] # 0

\* C5: check returns True exactly when quantity <= max_order_size, the side
\* is a buy or sell value and abs(position + signed quantity) <= max_position
\* (both limits inclusive).
C5_CheckDecision ==
    [][last'.op = "check" =>
         (last'.ret <=>
            /\ order.qty <= max_order_size
            /\ Recognised(order.side)
            /\ abs(PositionsGet(positions, order.symbol) + SignedQty(order))
                 <= max_position)]_vars

\* an order of exactly max_order_size landing exactly on the position limit
\* was approved
C5_Witness ==
    /\ last.op = "check"
    /\ last.ret
    /\ order.qty = max_order_size
    /\ abs(PositionsGet(positions, order.symbol) + SignedQty(order)) = max_position

\* C6: check returns False whenever quantity > max_order_size, whatever the
\* side and the position.
C6_OversizeRejected ==
    [][(last'.op = "check" /\ order.qty > max_order_size) =>
         last'.ret = FALSE]_vars

\* an oversize order that would bring an out-of-limit position back inside
\* the limit was rejected
C6_Witness ==
    /\ last.op = "check"
    /\ ~last.ret
    /\ order.qty > max_order_size
    /\ Recognised(order.side)
    /\ abs(PositionsGet(positions, order.symbol)) > max_position
    /\ abs(PositionsGet(positions, order.symbol) + SignedQty(order)) <= max_position

RECURSIVE SumFills(_, _)
\* sum of the signed quantities of the fills of a symbol
SumFills(fs, symbol) ==
    IF fs = <<>> THEN 0
    ELSE LET f == fs[Len(fs)]
         IN  SumFills(SubSeq(fs, 1, Len(fs) - 1), symbol)
             + (IF f.symbol = symbol THEN SignedQty(f) ELSE 0)

\* C7: get_position(symbol) is the sum of the signed quantities of the fills
\* applied for the symbol, and 0 for a symbol without fills.
C7_PositionIsSumOfFills ==
    \A symbol \in Symbols :
        get_position(positions, symbol) = SumFills(fills, symbol)

\* a buy and a sell of different sizes were filled on one symbol
C7_Witness ==
    /\ Len(fills) = 2
    /\ fills[1].symbol = fills[2].symbol
    /\ fills[1].side \in BuySides
    /\ fills[2].side \in SellSides
    /\ fills[1].qty # fills[2].qty
    /\ last.op = "get_position"
    /\ last.arg = fills[1].symbol
    /\ last.value # 0

\* C8: update_position directly after an approving check of the same order
\* succeeds and leaves the symbol at the position check evaluated, which is
\* within max_position.
C8_CheckThenUpdate ==
    [][(last.op = "check" /\ last.ret /\ last'.op = "update_position") =>
         /\ last'.raised = ""
         /\ order.symbol \in DOMAIN positions'
         /\ positions'[order.symbol]
              = PositionsGet(positions, order.symbol) + SignedQty(order)
         /\ abs(positions'[order.symbol]) <= max_position]_vars

\* an approved order was filled and the position sits on the limit
C8_Witness ==
    /\ last.op = "update_position"
    /\ last.follows_approval
    /\ last.raised = ""
    /\ abs(PositionsGet(positions, order.symbol)) = max_position

\* C9: for an order with an unknown side and a quantity within
\* max_order_size, check returns False without raising and gives the invalid
\* side as the reason; update_position raises an error naming the side and
\* leaves the ledger as it was.
C9_InvalidSide ==
    [][(~Recognised(order.side)) =>
         /\ (last'.op = "check" /\ order.qty <= max_order_size) =>
               /\ last'.ret = FALSE
               /\ last'.raised = ""
               /\ last'.reason.tag = "Invalid side"
               /\ last'.reason.side = order.side
         /\ (last'.op = "update_position") =>
               /\ last'.raised = "ValueError"
               /\ last'.error.text = "Invalid side in update_position"
               /\ last'.error.a = order.side
               /\ positions' = positions]_vars

\* update_position was refused for a side "9" order on a ledger with a position
C9_Witness ==
    /\ last.op = "update_position"
    /\ last.raised = "ValueError"
    /\ order.side = "9"
    /\ order.qty <= max_order_size
    /\ fills # <<>>

\* C10: every check appends exactly one event to the log before it returns:
\* RISK_APPROVED when it returns True, RISK_REJECTED with a reason when it
\* returns False.
C10_CheckReportsOutcome ==
    [][last'.op = "check" =>
         /\ Len(events') = Len(LoggerEvents) + 1
         /\ SubSeq(events', 1, Len(LoggerEvents)) = LoggerEvents
         /\ events'[Len(events')].event_type
              = (IF last'.ret THEN "RISK_APPROVED" ELSE "RISK_REJECTED")]_vars

\* C11: every successful update_position appends exactly one POSITION_UPDATE
\* event holding the symbol, the position before and after the call and the
\* order's quantity and side.
C11_UpdateReportsPosition ==
    [][(last'.op = "update_position" /\ last'.raised = "") =>
         events' = Append(LoggerEvents,
                     [event_type |-> "POSITION_UPDATE",
                      data |-> [symbol |-> order.symbol,
                                old_position |-> PositionsGet(positions, order.symbol),
                                new_position |-> PositionsGet(positions', order.symbol),
                                order_qty |-> order.qty,
                                order_side |-> order.side]])]_vars

\* the STATE_CHANGE event of a successful transition of order o from state s
StateChangeEvent(o, s, t) ==
    [event_type |-> "STATE_CHANGE",
     data |-> [symbol |-> o.symbol, qty |-> o.qty, side |-> o.side,
               old_state |-> s, new_state |-> t]]

C17_SinkFailureKeepsState ==
    [][(/\ last'.op = "transition"
        /\ <<order.state, last'.arg>> \in AllowedPairs
        /\ order.use_logger
        /\ FileAt(path').events # events') =>
         /\ last'.raised = ""
         /\ order'.state = last'.arg
         /\ events' = Append(LoggerEvents,
                             StateChangeEvent(order, order.state, last'.arg))
         /\ positions' = positions
         /\ fills' = fills]_vars

\* the write failed while a filled position was on the ledger: the order is
\* ACKED, the event is in memory and the file lags behind
C17_Witness ==
    /\ last.op = "transition"
    /\ last.raised = ""
    /\ order.use_logger
    /\ order.state = "ACKED"
    /\ FileAt(path).events # events
    /\ fills # <<>>

\* C18: get_position returns the ledger value of the symbol, 0 for a symbol
\* the ledger does not hold, adds no key, changes no value and leaves the
\* Logger and its file untouched.
C18_GetPositionPure ==
    [][last'.op = "get_position" =>
         /\ last'.value = (IF last'.arg \in DOMAIN positions
                           THEN positions[last'.arg] ELSE 0)
         /\ positions' = positions
         /\ UNCHANGED logger_vars]_vars

\* an unseen symbol was looked up on a ledger and a log that are not empty
C18_Witness ==
    /\ last.op = "get_position"
    /\ last.arg \notin DOMAIN positions
    /\ last.value = 0
    /\ DOMAIN positions # {}
    /\ events # <<>>

\* the positions in the history of the calls of one operation
Calls(op) == {i \in 1 .. Len(trace) : trace[i].op = op}

\* C13 as stated: in the flow of the logger test (an order built with default
\* arguments, log_state_change called once after each successful transition)
\* the log holds one STATE_CHANGE event per successful transition, two at the
\* end of NEW->ACKED->FILLED.
C13_OneStateChangePerTransition ==
    LET state_events == get_events(events, "STATE_CHANGE")
        transitions == {i \in Calls("transition") : trace[i].raised = ""}
    IN  /\ (last.op = "log_state_change") =>
               Len(state_events) = Cardinality(transitions)
        /\ (pc = "done") => Len(state_events) = 2

\* C14 as stated: from a cleared log, after one order built with default
\* arguments and one call of log_order_created for it,
\* get_events('ORDER_CREATED') holds one event, with the order's symbol.
C14_OneOrderCreated ==
    (pc = "lt_ack") =>
        LET created == get_events(events, "ORDER_CREATED")
        IN  /\ Len(created) = 1
            /\ created[1].data.symbol = order.symbol

\* C15: in main.py a check precedes every transition, the order is
\* acknowledged only after a check that returned true, update_position runs
\* at most once and only on a FILLED order, and after a check that returned
\* false the order ends REJECTED with the ledger as it was.
C15_MainOrdering ==
    /\ \A i \in Calls("transition") : \E j \in Calls("check") : j < i
    /\ \A i \in Calls("transition") :
          (trace[i].arg = "ACKED") =>
              \E j \in Calls("check") : j < i /\ trace[j].ret
    /\ \A i \in Calls("update_position") :
          /\ trace[i].state = "FILLED"
          /\ \E j \in Calls("transition") : j < i /\ trace[j].arg = "FILLED"
    /\ Cardinality(Calls("update_position")) <= 1
    /\ Len(fills) <= 1
    /\ \A j \in Calls("check") :
          ~trace[j].ret =>
              /\ positions = [s \in {} |-> 0]
              /\ fills = <<>>
              /\ order.state \in {"NEW", "REJECTED"}
              /\ (pc = "done") => order.state = "REJECTED"

\* main.py ran to its end on either branch: this run filled its order and
\* booked it (the rejected branch is the case of C15_MainOrdering's last part)
C15_Witness ==
    /\ pc = "done"
    /\ order.state = "FILLED"
    /\ Len(fills) = 1
    /\ Cardinality(Calls("update_position")) = 1
    /\ \E j \in Calls("check") : trace[j].ret

\* what the test states of its eight orders: the result of check and, for the
\* orders on AAPL, the position afterwards
RiskTestExpected ==
    << [ret |-> TRUE,  position |-> 500],
       [ret |-> TRUE,  position |-> 1300],
       [ret |-> FALSE, position |-> 0],
       [ret |-> FALSE, position |-> 1300],
       [ret |-> TRUE,  position |-> 700],
       [ret |-> TRUE,  position |-> 300],
       [ret |-> TRUE,  position |-> -1000],
       [ret |-> FALSE, position |-> -1000] >>

\* the orders of a scripted flow that are done with
Finished ==
    {n \in 1 .. RiskTestN :
        \/ n < RiskTestN
        \/ pc \in {"rt_order", "rt_assert_aapl", "rt_assert_googl",
                   "rt_assert_tsla", "done"}}

\* the last call made for the n-th order
LastOf(n) ==
    LET is == {i \in 1 .. Len(trace) :
                  trace[i].n = n /\ trace[i].op # "get_position"}
    IN  trace[CHOOSE i \in is : \A j \in is : j <= i]

\* C16: with limits 1000/2000 the eight orders of the risk test get the check
\* results true, true, false, false, true, true, true, false; the position of
\* each order's symbol afterwards is 500, 1300, 0, 1300, 700, 300, -1000,
\* -1000; every refused order ends REJECTED and every approved one FILLED;
\* at the end AAPL=700, GOOGL=300, TSLA=-1000, MSFT=0.
C16_RiskScenario ==
    /\ \A i \in Calls("check") : trace[i].ret = RiskTestExpected[trace[i].n].ret
    /\ \A n \in Finished :
          /\ LastOf(n).position = RiskTestExpected[n].position
          /\ LastOf(n).state = IF RiskTestExpected[n].ret THEN "FILLED"
                               ELSE "REJECTED"
    /\ (pc \in {"rt_assert_aapl", "rt_assert_googl", "rt_assert_tsla", "done"}) =>
          /\ get_position(positions, "AAPL") = 700
          /\ get_position(positions, "GOOGL") = 300
          /\ get_position(positions, "TSLA") = -1000
          /\ get_position(positions, "MSFT") = 0
          /\ Finished = 1 .. Len(RiskTestOrders)

\* the test ran to its end: eight checks, five fills, three rejections
C16_Witness ==
    /\ pc = "done"
    /\ Cardinality(Calls("check")) = 8
    /\ Len(fills) = 5
    /\ order.state = "REJECTED"
    /\ last.op = "get_position" /\ last.arg = "TSLA" /\ last.value = -1000

\* C19: a construction Logger(p) after the first, whatever p, yields the one
\* instance with the path and the events of the first construction: nothing
\* is reloaded or reset, no file is touched, and an event logged through any
\* handle or through an order's own Logger() lands in that one list.
C19_Singleton ==
    [][/\ (last'.op = "Logger" /\ initialized) =>
             /\ events' = events
             /\ path' = path
             /\ initialized'
             /\ file' = file /\ test_file' = test_file
       /\ (last'.op \in {"Order", "log_order_created", "transition"}
             /\ initialized /\ events' # events) =>
             /\ path' = path
             /\ Len(events') = Len(events) + 1
             /\ SubSeq(events', 1, Len(events)) = events]_vars

\* a second handle was taken with another path, whose file exists and holds
\* other events than the Logger does
C19_Witness ==
    /\ last.op = "Logger"
    /\ last.arg # path
    /\ path # ""
    /\ FileAt(last.arg).exists
    /\ events # <<>>
    /\ FileAt(last.arg).events # events

\* both workflows were approved and booked, and the position is outside the
\* limit
Breach ==
    /\ \A w \in Workers : workers[w].ret /\ workers[w].updated
    /\ abs(get_position(positions, "AAPL")) > max_position

\* C20: two workflows on one symbol and one engine can both be approved and
\* leave abs(position) > max_position; when that happens both checks ran
\* before either update_position, and the position some check approved is not
\* the position its update_position committed. An update that commits the
\* position its check approved stays inside the limit.
C20_BreachNeedsInterleaving ==
    /\ \A w \in Workers :
          (workers[w].updated /\ workers[w].committed = workers[w].new_position)
              => abs(workers[w].committed) <= max_position
    /\ Breach =>
          /\ \E w \in Workers : workers[w].committed # workers[w].new_position
          /\ \A i \in Calls("check"), j \in Calls("update_position") : i < j

\* the breach: two approved orders, both booked, position outside the limit
C20_Witness ==
    /\ Breach
    /\ Cardinality(Calls("check")) = 2
    /\ Cardinality(Calls("update_position")) = 2
    /\ \A w \in Workers : abs(workers[w].new_position) <= max_position

\* C21: update_position re-validates nothing: for every order with a buy or
\* sell side it succeeds and sets the symbol's entry to the entry (or 0) plus
\* the signed quantity, also for an oversize order, a result outside
\* max_position, and an order no check approved.
C21_UpdateUnconditional ==
    [][(last'.op = "update_position" /\ Recognised(order.side)) =>
         /\ last'.raised = ""
         /\ positions' = PositionsSet(positions, order.symbol,
                PositionsGet(positions, order.symbol) + SignedQty(order))]_vars

\* an oversize order that no check approved was booked and left the position
\* outside the limit
C21_Witness ==
    /\ last.op = "update_position"
    /\ last.raised = ""
    /\ ~last.follows_approval
    /\ order.qty > max_order_size
    /\ abs(PositionsGet(positions, order.symbol)) > max_position

\* C22: check and update_position classify the side alike: update_position
\* succeeds exactly on the sides check does not reject as invalid, '1', 'BUY',
\* 'Buy' are buys, '2', 'SELL', 'Sell' are sells, every other value is
\* unrecognised, and both compute the same signed quantity. (check tests the
\* order size first, so it names the side only for an order within
\* max_order_size.)
C22_SameSideClassification ==
    [][/\ (last'.op = "check") =>
            LET u == update_position(order, positions)
                tag == last'.reason.tag
            IN  /\ (tag = "Invalid side") => u.raised = "ValueError"
                /\ (order.qty <= max_order_size) =>
                      /\ (tag = "Invalid side") <=> (u.raised # "")
                      /\ (tag = "Invalid side") <=>
                            order.side \notin {"1", "BUY", "Buy", "2", "SELL", "Sell"}
                /\ (tag = "exceed max position") =>
                      last'.reason.new_position - last'.reason.current
                        = u.positions[order.symbol]
                            - PositionsGet(positions, order.symbol)
                /\ last'.ret => abs(u.positions[order.symbol]) <= max_position
       /\ (last'.op = "update_position") =>
            /\ (last'.raised = "") <=>
                  order.side \in {"1", "BUY", "Buy", "2", "SELL", "Sell"}
            /\ (last'.raised = "") =>
                  PositionsGet(positions', order.symbol)
                    - PositionsGet(positions, order.symbol)
                    = IF order.side \in {"1", "BUY", "Buy"} THEN order.qty
                      ELSE -order.qty]_vars

\* lower-case 'buy' was rejected as an invalid side on a ledger where a 'Sell'
\* and a 'BUY' had been booked
C22_Witness ==
    /\ last.op = "check"
    /\ order.side = "buy"
    /\ last.reason.tag = "Invalid side"
    /\ update_position(order, positions).raised = "ValueError"
    /\ \E i, j \in 1 .. Len(fills) : fills[i].side = "Sell" /\ fills[j].side = "BUY"

\* C23 as stated: the side of every order, and so every side in an event
\* payload and every side the engine reads, is one of the two values BUY and
\* SELL.
C23_SideNormalized ==
    /\ (order.state \in OrderState) => order.side \in {"BUY", "SELL"}
    /\ \A i \in 1 .. Len(events) : events[i].data.side \in {"BUY", "SELL"}

C26_UpdateFrame ==
    [][/\ (last'.op = "update_position") =>
            /\ \A s \in (DOMAIN positions \cup Symbols) \ {order.symbol} :
                  /\ (s \in DOMAIN positions') = (s \in DOMAIN positions)
                  /\ PositionsGet(positions', s) = PositionsGet(positions, s)
            /\ DOMAIN positions' \subseteq DOMAIN positions \cup {order.symbol}
            /\ max_order_size' = max_order_size
            /\ max_position' = max_position
            /\ order' = order
       /\ (last'.op = "check") =>
            /\ max_order_size' = max_order_size
            /\ max_position' = max_position
            /\ order' = order]_vars

\* a fill on one symbol while the other symbol holds a position
C26_Witness ==
    /\ last.op = "update_position"
    /\ last.raised = ""
    /\ \E s \in Symbols \ {order.symbol} : PositionsGet(positions, s) # 0
    /\ PositionsGet(positions, order.symbol) # 0

\* the event kinds of the specification
EventKinds == {"ORDER_CREATED", "STATE_CHANGE", "RISK_APPROVED",
               "RISK_REJECTED", "POSITION_UPDATE"}

\* C24: every event appended by an order's construction, by transition, by
\* log_risk_check and by log_position_update has a kind of the closed set; a
\* risk event is RISK_APPROVED exactly when passed is true and RISK_REJECTED
\* otherwise; the ORDER_CREATED event of a construction records state NEW.
C24_EventKinds ==
    [][(last'.op \in {"Order", "transition", "log_risk_check",
                      "log_position_update"} /\ events' # events) =>
         LET e == events'[Len(events')]
         IN  /\ \A i \in 1 .. Len(events') : events'[i].event_type \in EventKinds
             /\ (last'.op = "log_risk_check") =>
                   /\ e.data.passed = last'.ret
                   /\ e.event_type = (IF last'.ret THEN "RISK_APPROVED"
                                      ELSE "RISK_REJECTED")
             /\ (last'.op = "Order") =>
                   /\ e.event_type = "ORDER_CREATED"
                   /\ e.data.state = "NEW"
             /\ (last'.op = "transition") => e.event_type = "STATE_CHANGE"
             /\ (last'.op = "log_position_update") =>
                   e.event_type = "POSITION_UPDATE"]_vars

\* a rejection was logged after an approval
C24_Witness ==
    /\ last.op = "log_risk_check"
    /\ ~last.ret
    /\ events[Len(events)].event_type = "RISK_REJECTED"
    /\ \E i \in 1 .. Len(events) : events[i].event_type = "RISK_APPROVED"

\* C27: a transition that fails leaves the event list, the Logger and its
\* files exactly as they were.
C27_FailedTransitionSilent ==
    [][(last'.op = "transition" /\ last'.raised # "") =>
         /\ events' = events
         /\ UNCHANGED logger_vars]_vars

\* a logging order that had logged its way to ACKED was refused NEW
C27_Witness ==
    /\ last.op = "transition"
    /\ last.raised = "ValueError"
    /\ order.use_logger
    /\ order.state = "ACKED"
    /\ Len(events) = 2
    /\ events[Len(events)].event_type = "STATE_CHANGE"

RECURSIVE OfKind(_, _)
\* the events of one kind, in the order of the list
OfKind(evs, kind) ==
    IF evs = <<>> THEN <<>>
    ELSE IF Head(evs).event_type = kind
    THEN <<Head(evs)>> \o OfKind(Tail(evs), kind)
    ELSE OfKind(Tail(evs), kind)

RECURSIVE SumCounts(_)
\* the sum of the counts of a by_type mapping
SumCounts(by_type) ==
    IF DOMAIN by_type = {} THEN 0
    ELSE LET t == CHOOSE t \in DOMAIN by_type : TRUE
         IN  by_type[t] + SumCounts([u \in DOMAIN by_type \ {t} |-> by_type[u]])

\* C28: every log call appends one event at the end and leaves the earlier
\* events and their order alone; no call but clear removes an event, and clear
\* removes all; get_events(kind) is the events of the kind in list order, and
\* get_stats gives total_events = length of the list = sum of by_type.
C28_AppendOnly ==
    [][/\ (last'.op \in {"Order", "log_risk_check"}) =>
            /\ Len(events') = Len(LoggerEvents) + 1
            /\ SubSeq(events', 1, Len(LoggerEvents)) = LoggerEvents
       /\ (last'.op = "clear") => events' = <<>>
       /\ (last'.op # "clear") =>
            /\ Len(events') >= Len(events)
            /\ SubSeq(events', 1, Len(events)) = events
       /\ (last'.op = "get_events") =>
            /\ events' = events
            /\ last'.value = (IF last'.arg = "" THEN events
                              ELSE OfKind(events, last'.arg))
       /\ (last'.op = "get_stats") =>
            /\ events' = events
            /\ last'.value.total_events = Len(events)
            /\ last'.value.total_events = SumCounts(last'.value.by_type)
            /\ \A t \in DOMAIN last'.value.by_type :
                  last'.value.by_type[t] = Len(OfKind(events, t))]_vars

\* a query picked the rejections out of a full list of mixed kinds
C28_Witness ==
    /\ last.op = "get_events"
    /\ last.arg = "RISK_REJECTED"
    /\ Len(events) = MaxEvents
    /\ Len(last.value) \in 1 .. (MaxEvents - 1)
    /\ events[1].event_type = "ORDER_CREATED"

\* the STATE_CHANGE events after the last ORDER_CREATED event: those of the
\* order that logged last
LastChain ==
    LET created == {i \in 1 .. Len(events) : events[i].event_type = "ORDER_CREATED"}
        k == IF created = {} THEN 0
             ELSE CHOOSE i \in created : \A j \in created : j <= i
    IN  OfKind(SubSeq(events, k + 1, Len(events)), "STATE_CHANGE")

\* C29: with STATE_CHANGE events coming from transition only, the events of
\* one order form a chain of allowed transitions from NEW, each event starting
\* where the one before ended, of at most two events, and ending in the
\* order's current state.
C29_StateChangeChain ==
    /\ Len(LastChain) <= 2
    /\ \A i \in 1 .. Len(LastChain) :
          /\ <<LastChain[i].data.old_state, LastChain[i].data.new_state>>
                \in AllowedPairs
          /\ LastChain[i].data.old_state
                = (IF i = 1 THEN "NEW" ELSE LastChain[i - 1].data.new_state)
    /\ (order.state \in OrderState /\ order.use_logger) =>
          order.state = (IF LastChain = <<>> THEN "NEW"
                         ELSE LastChain[Len(LastChain)].data.new_state)

\* a logging order is FILLED and its two events are in the list
C29_Witness ==
    /\ order.use_logger
    /\ order.state = "FILLED"
    /\ Len(LastChain) = 2
    /\ LastChain[2].data.new_state = "FILLED"

\* the tag=value pairs of a message as a mapping, the last value of a tag kept
FieldMap(fields) ==
    [t \in {fields[i].tag : i \in 1 .. Len(fields)} |->
        LET is == {i \in 1 .. Len(fields) : fields[i].tag = t}
        IN  fields[CHOOSE i \in is : \A j \in is : j <= i].value]

\* every field of the message is a tag=value pair with a tag
WellFormed(fields) ==
    /\ fields # <<>>
    /\ \A i \in 1 .. Len(fields) : fields[i].eq /\ fields[i].tag # ""

\* the required tags of the claim, by message type
RequiredOf(m) ==
    IF "35" \notin DOMAIN m THEN {"35"}
    ELSE IF m["35"] = "D" THEN {"35", "55", "54", "38", "40"}
    ELSE IF m["35"] = "S" THEN {"35", "55", "132", "133"}
    ELSE {"35"}

\* the conditions of the claim on a field mapping
Acceptable(m) ==
    /\ "35" \in DOMAIN m
    /\ RequiredOf(m) \subseteq DOMAIN m
    /\ ("35" \in DOMAIN m /\ m["35"] = "D" /\ "40" \in DOMAIN m /\ m["40"] = "2")
          => "44" \in DOMAIN m
    /\ ("54" \in DOMAIN m) => m["54"] \in {"1", "2"}

\* C30: with validation, parse returns the field mapping exactly when tag 35
\* is there, the required tags of the message type are there, a limit order
\* (type D, tag 40 = '2') has tag 44, and tag 54, if there, is '1' or '2';
\* otherwise it raises ValueError, and the error names tags that are missing
\* or the Side value that is invalid.
C30_ValidatedParse ==
    (last.op = "parse" /\ raw.validate /\ WellFormed(raw.fields)) =>
        LET m == FieldMap(raw.fields)
        IN  IF Acceptable(m)
            THEN last.raised = "" /\ msg = m
            ELSE /\ last.raised = "ValueError"
                 /\ msg = NoMsg
                 /\ \/ /\ last.error.text = "Missing required tag 35 (MsgType)"
                       /\ "35" \notin DOMAIN m
                    \/ /\ last.error.text = "Missing required tags for"
                       /\ last.error.a # <<>>
                       /\ {last.error.a[i] : i \in 1 .. Len(last.error.a)}
                            = RequiredOf(m) \ DOMAIN m
                    \/ /\ last.error.text
                            = "Limit orders (OrdType=2) require tag 44 (Price)"
                       /\ "44" \notin DOMAIN m
                    \/ /\ last.error.text = "Invalid Side value"
                       /\ last.error.a = m["54"]
                       /\ m["54"] \notin {"1", "2"}

\* a complete limit order with Side '9' was refused for its Side
C30_Witness ==
    /\ last.op = "parse"
    /\ raw.validate
    /\ WellFormed(raw.fields)
    /\ RequiredOf(FieldMap(raw.fields)) \subseteq DOMAIN FieldMap(raw.fields)
    /\ FieldMap(raw.fields)["35"] = "D"
    /\ FieldMap(raw.fields)["40"] = "2"
    /\ "44" \in DOMAIN FieldMap(raw.fields)
    /\ last.raised = "ValueError"
    /\ last.error.text = "Invalid Side value"
    /\ last.error.a = "9"

\* the message the flow parsed was accepted: parse returned a mapping
ParseAccepted ==
    \E i \in Calls("parse") : trace[i].raised = ""

\* the accepted message carries what line 14 reads: Symbol, OrderQty and
\* Side, with an OrderQty int() converts (a NewOrderSingle always carries the
\* three tags, a message of another type may)
OrderMessage ==
    /\ ParseAccepted
    /\ {"55", "38", "54"} \subseteq DOMAIN msg
    /\ int(msg["38"]).raised = ""

\* the script is over: it ran to its last line or an exception ended it
Ended == pc \in {"done", "crashed"}

\* what C31 says of a run: it ended on its last line with the order FILLED or
\* REJECTED; no transition failed; update_position did not raise
CompletedCleanly ==
    /\ pc = "done"
    /\ order.state \in {"FILLED", "REJECTED"}
    /\ \A i \in Calls("transition") : trace[i].raised = ""
    /\ \A i \in Calls("update_position") : trace[i].raised = ""

\* C31 as stated: in the main.py flow, for every message that parse accepts
\* with validation, the flow terminates with the order FILLED or REJECTED, no
\* transition fails and update_position never raises.
C31_AcceptedMessageCompletes ==
    (Ended /\ ParseAccepted) => CompletedCleanly

\* C31, amended: in the main.py flow, for every message that parse accepts
\* with validation and that carries Symbol (55), Side (54) and an OrderQty
\* (38) int() converts, as every such NewOrderSingle does, the flow terminates
\* with the order FILLED or REJECTED (never NEW, ACKED or CANCELED at the
\* end), no transition in the flow fails, update_position never raises, and
\* every order the flow builds has Side '1' or '2'.
C31_AcceptedOrderCompletes ==
    /\ [](\A i \in Calls("transition") \cup Calls("update_position") :
              trace[i].raised = "")
    /\ []((order # NoOrder) => order.side \in {"1", "2"})
    /\ []((Ended /\ OrderMessage) => CompletedCleanly)
    /\ (pc = "main_build" /\ OrderMessage) ~> CompletedCleanly

\* an accepted order message went through the whole script: parsed, checked,
\* acknowledged, filled and booked
C31_Witness ==
    /\ pc = "done"
    /\ OrderMessage
    /\ msg["35"] = "D"
    /\ order.state = "FILLED"
    /\ order.side \in {"1", "2"}
    /\ Cardinality(Calls("transition")) = 2
    /\ Cardinality(Calls("update_position")) = 1
    /\ Len(fills) = 1

====
